---- MODULE Spec2Model ----
(***************************************************************************)
(* A model of web/profile.go of LiteSpeedTest: the parsing of an inbound   *)
(* batch message (parseMessage and its helpers) and the orchestration of   *)
(* one batch (ProfileTest.testAll, testOne, pingLink and the sample        *)
(* consumer goroutine), with the frames written to the websocket.          *)
(*                                                                         *)
(* Go indexes from 0 and TLA+ sequences from 1: At(s, i) is s[i] of Go.    *)
(* A string that the code splits or parses is a sequence of tokens, each   *)
(* a string without the separator "^": a digit, a sign, or a longer chunk  *)
(* (a descriptor, a group name).                                           *)
(***************************************************************************)
EXTENDS Integers, Sequences, FiniteSets, TLC

\* ------------------------------------------------------------------ bounds
\* Largest number of links of a batch.
MaxLinks == 2
\* Largest concurrency a batch message of the orchestration asks for.
MaxConcurrency == 2
\* Largest number of samples the throughput primitive pushes for one link.
MaxSamples == 1
\* Largest concurrency value a parsed message carries (the smallest is -1).
MaxConcurrencyInput == 3
\* Largest timeout value, in seconds, a parsed message carries (the smallest is -1).
MaxTimeoutInput == 31

\* Largest number of samples pushed for the link of the sampling specification.
MaxFeed == 3
\* Largest sample pushed for the link of the sampling specification (the smallest is -1).
MaxSampleValue == 4

\* --------------------------------------------------------------- constants
\* const ( SpeedOnly; PingOnly; ALLTEST = iota; RETEST ): iota counts the
\* specifications of the block, so ALLTEST is 2 and RETEST is 3.
SpeedOnly == "speedonly"
PingOnly == "pingonly"
ALLTEST == 2
RETEST == 3
\* time.Second, in nanoseconds (the unit of time.Duration).
Second == 1000000000
\* the floor both parsers compare the timeout with
TimeoutFloor == 20

ErrNil == "nil"
ErrInvalidData == "invalid data"
ErrNotRetest == "not retest mode"
ErrSyntax == "strconv.Atoi: invalid syntax"
ErrJSON == "json: cannot unmarshal"
ErrFetch == "http: fetch failed"

\* ------------------------------------------------------------ Go helpers
At(s, i) == s[i + 1]
InRange(s, i) == i >= 0 /\ i < Len(s)

\* time.Duration is an int64 of nanoseconds.  TLC's integers are 32 bits wide,
\* so a duration is kept as whole seconds plus 0..Second-1 nanoseconds; the
\* values of the model stay far from the int64 range, where Go would wrap.
Duration(ns) == [sec |-> ns \div Second, nsec |-> ns % Second]
\* d * time.Second: d nanoseconds times 10^9 is d seconds
TimesSecond(d) == [sec |-> d.sec * Second + d.nsec, nsec |-> 0]
DurationLess(a, b) == a.sec < b.sec \/ (a.sec = b.sec /\ a.nsec < b.nsec)
\* int(d): the number of nanoseconds
DurationInt(d) == d.sec * Second + d.nsec
Seconds(n) == [sec |-> n, nsec |-> 0]

Caret == "^"
Digits == <<"0", "1", "2", "3", "4", "5", "6", "7", "8", "9">>
IsDigit(c) == \E k \in 1..10 : Digits[k] = c
DigitValue(c) == (CHOOSE k \in 1..10 : Digits[k] = c) - 1

RECURSIVE Str(_)
\* string(tokens): the text of a token sequence
Str(s) == IF s = <<>> THEN "" ELSE Head(s) \o Str(Tail(s))

HasCaret(s) == \E k \in 1..Len(s) : s[k] = Caret
FirstCaret(s) == CHOOSE k \in 1..Len(s) : s[k] = Caret /\ \A j \in 1..(k - 1) : s[j] # Caret

RECURSIVE Split(_)
\* strings.Split(s, "^")
Split(s) ==
    IF ~HasCaret(s) THEN <<s>>
    ELSE <<SubSeq(s, 1, FirstCaret(s) - 1)>> \o Split(SubSeq(s, FirstCaret(s) + 1, Len(s)))

\* strings.SplitN(s, "^", 2)
SplitN2(s) ==
    IF ~HasCaret(s) THEN <<s>>
    ELSE <<SubSeq(s, 1, FirstCaret(s) - 1), SubSeq(s, FirstCaret(s) + 1, Len(s))>>

RECURSIVE DigitsValue(_)
DigitsValue(s) == IF s = <<>> THEN 0 ELSE 10 * DigitsValue(SubSeq(s, 1, Len(s) - 1)) + DigitValue(s[Len(s)])

\* strconv.Atoi: an optional sign, then one digit or more
Atoi(s) ==
    LET signed == Len(s) > 0 /\ s[1] \in {"-", "+"}
        body == IF signed THEN Tail(s) ELSE s
    IN  IF body = <<>> \/ \E k \in 1..Len(body) : ~IsDigit(body[k])
        THEN [val |-> 0, err |-> ErrSyntax]
        ELSE [val |-> IF signed /\ s[1] = "-" THEN 0 - DigitsValue(body) ELSE DigitsValue(body),
              err |-> ErrNil]

RECURSIVE Itoa(_)
\* the decimal text of an integer, as the tokens of a message field
Itoa(n) ==
    IF n < 0 THEN <<"-">> \o Itoa(0 - n)
    ELSE IF n < 10 THEN <<Digits[n + 1]>>
    ELSE Itoa(n \div 10) \o <<Digits[(n % 10) + 1]>>

\* ------------------------------------------------------------ parseLinks
\* The chunks the descriptor pattern of parseLinks matches, and a chunk it
\* does not match.
Descriptors == {"vmess://abc", "ssr://def", "ss://a@h:8080#n", "trojan://p@h:443?s"}
\* The chunks the subscription pattern (http:// or https:// and a host) matches.
SubscriptionURLs == {"https://sub.example", "https://down.example"}

\* regexp.MatchString of the subscription pattern, which is anchored at the start
MatchSubscription(message) == message # <<>> /\ message[1] \in SubscriptionURLs

\* reg.FindAllStringSubmatch: the descriptors of the text, in order
FindAllDescriptors(message) == SelectSeq(message, LAMBDA c : c \in Descriptors)

\* c.Get, io.ReadAll and common.DecodeB64: the decoded body of a subscription,
\* which the remote server decides
DecodedBody(link) ==
    IF link = "https://sub.example"
    THEN [msg |-> <<"vmess://abc", "\n", "ss://a@h:8080#n">>, err |-> ErrNil]
    ELSE [msg |-> <<>>, err |-> ErrFetch]

RECURSIVE parseLinks(_)
getSubscriptionLinks(link) ==
    LET body == DecodedBody(Str(link))
    IN  IF body.err # ErrNil THEN [links |-> <<>>, err |-> body.err]
        ELSE parseLinks(body.msg)

parseLinks(message) ==
    IF MatchSubscription(message) THEN getSubscriptionLinks(message)
    ELSE LET links == FindAllDescriptors(message)
         IN  IF Len(links) < 1 THEN [links |-> <<>>, err |-> ErrInvalidData]
             ELSE [links |-> links, err |-> ErrNil]

\* ---------------------------------------------------------- parseOptions
NoOptions ==
    [GroupName |-> "", SpeedTestMode |-> "", PingMethod |-> "", SortMethod |-> "",
     Concurrency |-> 0, TestMode |-> 0, TestIDs |-> <<>>, Timeout |-> Duration(0),
     Links |-> <<>>]

DefaultGroup(groupName) ==
    IF groupName = "?empty?" \/ groupName = "" THEN "Default Group" ELSE groupName

\* the floor left out
FloorConcurrency_NoFloor(concurrency) == concurrency

\* if concurrency < 1 { concurrency = 1 }
FloorConcurrency(concurrency) == IF concurrency < 1 THEN 1 ELSE concurrency

\* parseOptions: if timeout < 20 { timeout = 20 }; time.Duration(timeout) * time.Second
LegacyTimeout(timeout) ==
    TimesSecond(Duration(IF timeout < TimeoutFloor THEN TimeoutFloor ELSE timeout))

parseOptions(message) ==
    LET opts == Split(message)
        concurrency == Atoi(opts[6])
        timeout == Atoi(opts[7])
    IN  IF Len(opts) < 7 THEN [options |-> NoOptions, err |-> ErrInvalidData]
        ELSE IF concurrency.err # ErrNil THEN [options |-> NoOptions, err |-> concurrency.err]
        ELSE IF timeout.err # ErrNil THEN [options |-> NoOptions, err |-> timeout.err]
        ELSE [options |->
                [GroupName |-> DefaultGroup(Str(opts[1])),
                 SpeedTestMode |-> Str(opts[2]),
                 PingMethod |-> Str(opts[3]),
                 SortMethod |-> Str(opts[4]),
                 Concurrency |-> FloorConcurrency(concurrency.val),
                 TestMode |-> ALLTEST,
                 TestIDs |-> <<>>,
                 Timeout |-> LegacyTimeout(timeout.val),
                 Links |-> <<>>],
              err |-> ErrNil]

\* ----------------------------------------------------- parseRetestMessage
\* A message is its text (tokens) and, when the text is a JSON object that
\* decodes into ProfileTestOptions, the members of that object (json holds
\* one record; it is empty for any other text).  A member the object leaves
\* out has the zero value of its type.
Unmarshal(message) ==
    IF message.json = <<>> THEN [options |-> NoOptions, err |-> ErrJSON]
    ELSE LET o == message.json[1]
         IN  [options |->
                [GroupName |-> o.group,
                 SpeedTestMode |-> o.speedtestMode,
                 PingMethod |-> o.pingMethod,
                 SortMethod |-> o.sortMethod,
                 Concurrency |-> o.concurrency,
                 TestMode |-> o.testMode,
                 TestIDs |-> o.testids,
                 Timeout |-> Duration(o.timeout),
                 Links |-> o.links],
              err |-> ErrNil]

\* options.Timeout = time.Duration(int(options.Timeout)) * time.Second
\* if options.Timeout < 20 { options.Timeout = 20 }
RetestTimeout(timeout) ==
    LET t == TimesSecond(Duration(DurationInt(timeout)))
    IN  IF DurationLess(t, Duration(TimeoutFloor)) THEN Duration(TimeoutFloor) ELSE t

parseRetestMessage(message) ==
    LET u == Unmarshal(message)
        options == u.options
    IN  IF u.err # ErrNil THEN [links |-> <<>>, options |-> NoOptions, err |-> u.err]
        ELSE IF options.TestMode # RETEST
        THEN [links |-> <<>>, options |-> NoOptions, err |-> ErrNotRetest]
        ELSE [links |-> options.Links,
              options |->
                [options EXCEPT !.TestMode = RETEST,
                                !.Timeout = RetestTimeout(options.Timeout),
                                !.GroupName = DefaultGroup(options.GroupName),
                                !.Concurrency = FloorConcurrency(options.Concurrency)],
              err |-> ErrNil]

\* ----------------------------------------------------------- parseMessage
parseMessage(message) ==
    LET retest == parseRetestMessage(message)
        splits == SplitN2(message.text)
        links == parseLinks(splits[1])
        options == parseOptions(splits[2])
    IN  IF retest.err = ErrNil THEN retest
        ELSE IF Len(splits) < 2 THEN [links |-> <<>>, options |-> NoOptions, err |-> ErrInvalidData]
        ELSE IF links.err # ErrNil THEN [links |-> <<>>, options |-> NoOptions, err |-> links.err]
        ELSE IF options.err # ErrNil THEN [links |-> <<>>, options |-> NoOptions, err |-> options.err]
        ELSE [links |-> links.links, options |-> options.options, err |-> ErrNil]

\* ---------------------------------------------------------------- messages
NoJSON == <<>>

\* <linktext>^<group>^<speedMode>^<pingMethod>^<sortMethod>^<unused>^<concurrency>^<timeout>
LegacyMessage(linktext, group, speedMode, concurrency, timeout) ==
    [text |-> linktext \o <<Caret>> \o group \o <<Caret>> \o speedMode
                \o <<Caret, Caret, Caret, Caret>> \o concurrency \o <<Caret>> \o timeout,
     json |-> NoJSON]

\* a JSON object with the members of ProfileTestOptions; its text holds no "^"
RetestEnvelope(group, speedMode, concurrency, testMode, testids, timeout, links) ==
    [text |-> <<"{json}">>,
     json |-> <<[group |-> group, speedtestMode |-> speedMode, pingMethod |-> "",
                 sortMethod |-> "", concurrency |-> concurrency, testMode |-> testMode,
                 testids |-> testids, timeout |-> timeout, links |-> links]>>]

\* The messages of the parsing specification.
ConcurrencyInputs == (0 - 1)..MaxConcurrencyInput
TimeoutInputs == (0 - 1)..MaxTimeoutInput
GroupInputs == {<<>>, <<"?empty?">>, <<"Group1">>}

ParseMessages ==
    {LegacyMessage(<<"vmess://abc">>, g, <<>>, Itoa(c), Itoa(t)) :
        g \in GroupInputs, c \in ConcurrencyInputs, t \in TimeoutInputs}
    \cup {LegacyMessage(l, <<"Group1">>, <<>>, <<"3">>, t) :
        l \in {<<"junk">>, <<"https://sub.example">>, <<"https://down.example">>,
               <<"vmess://abc", "\n", "trojan://p@h:443?s">>},
        t \in {<<"3", "0">>, <<"x">>, <<>>}}
    \cup {[text |-> <<"vmess://abc">>, json |-> NoJSON],
          [text |-> <<"vmess://abc", Caret, "Group1", Caret, Caret, Caret, Caret, "3">>,
           json |-> NoJSON],
          [text |-> <<"vmess://abc", Caret, "Group1", Caret, Caret, Caret, Caret, "3", Caret, "3", "0">>,
           json |-> NoJSON]}
    \cup {RetestEnvelope(Str(g), "", c, m, <<0>>, t, <<"ss://a@h:8080#n">>) :
        g \in {<<>>, <<"Group1">>}, c \in ConcurrencyInputs, m \in {0, ALLTEST, RETEST},
        t \in TimeoutInputs}

\* The batch messages of the orchestration.  A legacy message carries the
\* first n descriptors of LegacyLinks; it asks for concurrency 1 in every speed
\* mode, and for a larger concurrency in speed-only mode, whose pipelines are
\* the shortest.  A retest envelope carries the first n of RetestLinks and the
\* first k <= n of RetestIDs (fewer identifiers than links when k < n), or one
\* empty link, or an empty link before another link.
LegacyLinks == <<"vmess://abc", "\n", "ss://a@h:8080#n", "\n", "trojan://p@h:443?s", "\n", "ssr://def">>
SpeedModes == {"", PingOnly, SpeedOnly}
RetestIDs == <<5, 0, 7, 1>>
RetestLinks == <<"ss://x", "trojan://y", "ss://z", "trojan://w">>

LegacyBatch(n, m, c) ==
    LegacyMessage(SubSeq(LegacyLinks, 1, 2 * n - 1), <<"Group1">>, <<m>>, Itoa(c), <<"3", "0">>)

BatchMessages ==
    {LegacyBatch(n, m, 1) : n \in 1..MaxLinks, m \in SpeedModes}
    \cup {LegacyBatch(n, SpeedOnly, c) : n \in 1..MaxLinks, c \in 2..MaxConcurrency}
    \cup {RetestEnvelope("Group1", m, 1, RETEST, SubSeq(RetestIDs, 1, k), 30, SubSeq(RetestLinks, 1, n)) :
            m \in SpeedModes, k \in 0..MaxLinks, n \in 0..MaxLinks}
    \cup {RetestEnvelope("Group1", m, 1, RETEST, <<id>>, 30, <<"">>) : m \in SpeedModes, id \in {0, 5}}
    \cup {RetestEnvelope("Group1", SpeedOnly, 1, RETEST, <<1, 0>>, 30, <<"", "ss://x">>)}

\* ------------------------------------------------------------------ frames
\* getMsgByte(id, typ, option...), gotserverMsg(id, link, group) and
\* SPEEDTEST_ERROR_NONODES build the frames; a frame is kept as its members.
Frame(id, info, option) == [id |-> id, info |-> info, option |-> option, link |-> "", group |-> ""]
getMsgByte(id, typ) == Frame(id, typ, <<>>)
getMsgByte1(id, typ, a) == Frame(id, typ, <<a>>)
getMsgByte3(id, typ, a, b, c) == Frame(id, typ, <<a, b, c>>)
gotserverMsg(id, link, group) ==
    [id |-> id, info |-> "gotserver", option |-> <<>>, link |-> link, group |-> group]
SPEEDTEST_ERROR_NONODES == Frame(0 - 1, "error", <<>>)
\* the sentinel gotspeed(index, -1, -1, 0)
Sentinel(index) == getMsgByte3(index, "gotspeed", 0 - 1, 0 - 1, 0)

\* --------------------------------------------------------------- primitives
\* what request.PingLink returns: elapsed milliseconds and an error
ElapseValues == {0, 40}
ErrPing == "ping failed"
ErrPingOnly == PingOnly
\* the samples download.Download pushes, and the speed it returns
Samples == {0 - 1, 3}
DownloadSpeeds == {0, 3}

\* ------------------------------------------------------------------- state
VARIABLES
    message,    \* the inbound message
    parsed,     \* what parseMessage returned for it: <<>> before the call, then <<result>>
    Links,      \* p.Links
    Options,    \* p.Options
    mu,         \* p.mu is locked
    writers,    \* the goroutines inside p.Conn.WriteMessage
    out,        \* the frames written to p.Conn, in order
    wg,         \* the counter of p.wg
    guard,      \* the buffer of the channel guard
    done,       \* ctx.Done() is closed
    crashed,    \* a goroutine panicked: the process has ended
    main,       \* the goroutine of testAll: [pc, i, id, link, ret]
    pipe,       \* the goroutine of each position: [pc, index, link, wgDone, elapse, err, sent]
    ch,         \* the sample channel of each position: [made, buf, closed]
    cons        \* the consumer goroutine of each position: [pc, speeds, max, avg, speed]

vars == <<message, parsed, Links, Options, mu, writers, out, wg, guard, done, crashed,
          main, pipe, ch, cons>>
batch == <<message, parsed, Links, Options>>

Positions == 0..(Len(Links) - 1)
Main == <<"main", 0>>
Pipe(p) == <<"pipe", p>>
Cons(p) == <<"cons", p>>

IdlePipe == [pc |-> "idle", index |-> 0, link |-> "", wgDone |-> FALSE, elapse |-> 0,
             err |-> ErrNil, sent |-> 0]
NoChannel == [made |-> FALSE, buf |-> <<>>, closed |-> FALSE]
NoConsumer == [pc |-> "none", speeds |-> <<>>, max |-> 0, avg |-> 0, speed |-> 0]

\* p := ProfileTest{Conn: c, Options: options, MessageType: mt, Links: links}
NewProfileTest(links, options) ==
    /\ Links = links
    /\ Options = options
    /\ mu = FALSE
    /\ writers = {}
    /\ out = <<>>
    /\ wg = 0
    /\ guard = <<>>
    /\ done = FALSE
    /\ crashed = FALSE
    /\ main = [pc |-> "testAll", i |-> 0, id |-> 0, link |-> "", ret |-> ""]
    /\ pipe = [p \in 0..(Len(links) - 1) |-> IdlePipe]
    /\ ch = [p \in 0..(Len(links) - 1) |-> NoChannel]
    /\ cons = [p \in 0..(Len(links) - 1) |-> NoConsumer]

\* The batch of a message parseMessage accepted, about to run testAll.
Init ==
    \E m \in BatchMessages :
        /\ parseMessage(m).err = ErrNil
        /\ message = m
        /\ parsed = <<parseMessage(m)>>
        /\ NewProfileTest(parseMessage(m).links, parseMessage(m).options)

\* --------------------------------------------------------- WriteMessage
\* The goroutine g is at a call of p.WriteMessage.
AtWrite(g) ==
    \/ g = Main /\ main.pc \in {"testAll", "gotserver", "eof"}
    \/ \E p \in Positions :
        /\ g = Pipe(p)
        /\ pipe[p].pc \in {"startping", "gotping", "pingsentinel", "startspeed",
                           "speedsentinel", "endone"}
    \/ \E p \in Positions : g = Cons(p) /\ cons[p].pc = "gotspeed"

Goroutines == {Main} \cup {Pipe(p) : p \in Positions} \cup {Cons(p) : p \in Positions}

\* a lock that never excludes
MuFree_Always == TRUE

\* p.mu.Lock() succeeds only while the mutex is free
MuFree == ~mu

\* p.mu.Lock(), and p.Conn.WriteMessage begins
Lock(g) ==
    /\ ~crashed
    /\ AtWrite(g)
    /\ g \notin writers
    /\ MuFree
    /\ mu' = TRUE
    /\ writers' = writers \cup {g}
    /\ UNCHANGED <<batch, out, wg, guard, done, crashed, main, pipe, ch, cons>>

\* p.Conn.WriteMessage(p.MessageType, data) ends, and p.mu.Unlock()
Write(g, data) ==
    /\ ~crashed
    /\ g \in writers
    /\ out' = Append(out, data)
    /\ writers' = writers \ {g}
    /\ mu' = FALSE

\* ----------------------------------------------------------------- testAll
\* a pool with one token too many
GuardCap_PlusOne == Options.Concurrency + 1

\* guard := make(chan int, p.Options.Concurrency)
GuardCap == Options.Concurrency

\* len(p.Options.TestIDs) > 0 && len(p.Options.Links) > 0
Explicit == Len(Options.TestIDs) > 0 /\ Len(Options.Links) > 0

\* the empty batch not recognised
NoLinks_Never == Len(Links) < 0

\* if len(p.Links) < 1 { WriteString(SPEEDTEST_ERROR_NONODES); return error }
\* p.WriteMessage(getMsgByte(-1, "started"))
NoLinks == Len(Links) < 1

TestAllStart ==
    /\ main.pc = "testAll"
    /\ IF NoLinks
       THEN /\ Write(Main, SPEEDTEST_ERROR_NONODES)
            /\ main' = [main EXCEPT !.pc = "done", !.ret = "no profile found"]
       ELSE /\ Write(Main, getMsgByte(0 - 1, "started"))
            /\ main' = [main EXCEPT !.pc = "gotserver", !.i = 0]
    /\ UNCHANGED <<batch, wg, guard, done, crashed, pipe, ch, cons>>

\* for i := range p.Links { p.WriteMessage(gotserverMsg(i, p.Links[i], p.Options.GroupName)) }
GotServer ==
    /\ main.pc = "gotserver"
    /\ Write(Main, gotserverMsg(main.i, At(Links, main.i), Options.GroupName))
    /\ main' = IF main.i + 1 < Len(Links)
               THEN [main EXCEPT !.i = main.i + 1]
               ELSE [main EXCEPT !.pc = "loop", !.i = 0]
    /\ UNCHANGED <<batch, wg, guard, done, crashed, pipe, ch, cons>>

\* p.wg.Add(1); id := i; link := ""; the explicit id and link of a retest.
\* An index out of range panics, and nothing recovers it.
LoopAdd ==
    /\ ~crashed
    /\ main.pc = "loop"
    /\ wg' = wg + 1
    /\ IF ~Explicit
       THEN /\ main' = [main EXCEPT !.pc = "select", !.id = main.i, !.link = ""]
            /\ UNCHANGED crashed
       ELSE IF InRange(Options.TestIDs, main.i) /\ InRange(Options.Links, main.i)
       THEN /\ main' = [main EXCEPT !.pc = "select",
                                    !.id = At(Options.TestIDs, main.i),
                                    !.link = At(Options.Links, main.i)]
            /\ UNCHANGED crashed
       ELSE /\ crashed' = TRUE
            /\ main' = [main EXCEPT !.pc = "panic"]
    /\ UNCHANGED <<batch, mu, writers, out, guard, done, pipe, ch, cons>>

\* case guard <- i: go func(id, link, guard) {...}
SelectSend ==
    /\ ~crashed
    /\ main.pc = "select"
    /\ Len(guard) < GuardCap
    /\ guard' = Append(guard, main.i)
    /\ pipe' = [pipe EXCEPT ![main.i] =
                   [IdlePipe EXCEPT !.pc = "testOne", !.index = main.id, !.link = main.link]]
    /\ main' = IF main.i + 1 < Len(Links)
               THEN [main EXCEPT !.pc = "loop", !.i = main.i + 1]
               ELSE [main EXCEPT !.pc = "wait"]
    /\ UNCHANGED <<batch, mu, writers, out, wg, done, crashed, ch, cons>>

\* case <-ctx.Done(): return nil
SelectDone ==
    /\ ~crashed
    /\ main.pc = "select"
    /\ done
    /\ main' = [main EXCEPT !.pc = "done", !.ret = ErrNil]
    /\ UNCHANGED <<batch, mu, writers, out, wg, guard, done, crashed, pipe, ch, cons>>

\* p.wg.Wait()
Wait ==
    /\ ~crashed
    /\ main.pc = "wait"
    /\ wg = 0
    /\ main' = [main EXCEPT !.pc = "eof"]
    /\ UNCHANGED <<batch, mu, writers, out, wg, guard, done, crashed, pipe, ch, cons>>

\* p.WriteMessage(getMsgByte(-1, "eof")); return nil
WriteEOF ==
    /\ main.pc = "eof"
    /\ Write(Main, getMsgByte(0 - 1, "eof"))
    /\ main' = [main EXCEPT !.pc = "done", !.ret = ErrNil]
    /\ UNCHANGED <<batch, wg, guard, done, crashed, pipe, ch, cons>>

\* the owner of ctx cancels it
Cancel ==
    /\ ~crashed
    /\ ~done
    /\ done' = TRUE
    /\ UNCHANGED <<batch, mu, writers, out, wg, guard, crashed, main, pipe, ch, cons>>

\* ----------------------------------------------------------------- testOne
SetPipe(p, r) == pipe' = [pipe EXCEPT ![p] = r]

\* if link == "" { defer p.wg.Done(); link = p.Links[index]; link = SplitN(link, "^", 2)[0] }
\* then pingLink: if p.Options.SpeedTestMode == SpeedOnly { return nil }.
\* p.Links[index] out of range panics in the goroutine.
TestOne(p) ==
    /\ ~crashed
    /\ pipe[p].pc = "testOne"
    /\ IF pipe[p].link = "" /\ ~InRange(Links, pipe[p].index)
       THEN /\ crashed' = TRUE
            /\ SetPipe(p, [pipe[p] EXCEPT !.pc = "panic", !.wgDone = TRUE])
       ELSE /\ UNCHANGED crashed
            /\ SetPipe(p, [pipe[p] EXCEPT
                    !.pc = IF Options.SpeedTestMode = SpeedOnly THEN "startspeed" ELSE "startping",
                    !.wgDone = (pipe[p].link = ""),
                    !.link = IF pipe[p].link = ""
                             THEN Str(SplitN2(<<At(Links, pipe[p].index)>>)[1])
                             ELSE pipe[p].link])
    /\ UNCHANGED <<batch, mu, writers, out, wg, guard, done, main, ch, cons>>

\* pingLink: p.WriteMessage(getMsgByte(index, "startping")); elapse, err := request.PingLink(link, 2)
StartPing(p) ==
    /\ pipe[p].pc = "startping"
    /\ Write(Pipe(p), getMsgByte(pipe[p].index, "startping"))
    /\ \E elapse \in ElapseValues, err \in {ErrNil, ErrPing} :
        SetPipe(p, [pipe[p] EXCEPT !.pc = "gotping", !.elapse = elapse, !.err = err])
    /\ UNCHANGED <<batch, wg, guard, done, crashed, main, ch, cons>>

\* what pingLink does after gotping: "sentinel" (a sentinel gotspeed follows) or "return"
AfterGotPing(elapse, mode) ==
    IF elapse < 1 THEN "sentinel"
    ELSE IF mode = PingOnly THEN "sentinel"
    ELSE "return"

\* the error pingLink returns: err when elapse < 1, errors.New(PingOnly) in
\* ping-only mode, err otherwise
PingLinkErr(elapse, mode, err) ==
    IF elapse < 1 THEN err
    ELSE IF mode = PingOnly THEN ErrPingOnly
    ELSE err

\* testOne after pingLink: if err != nil { return err }
AfterPingLink(err) == IF err # ErrNil THEN "return" ELSE "startspeed"

\* p.WriteMessage(getMsgByte(index, "gotping", elapse))
GotPing(p) ==
    /\ pipe[p].pc = "gotping"
    /\ Write(Pipe(p), getMsgByte1(pipe[p].index, "gotping", pipe[p].elapse))
    /\ LET err == PingLinkErr(pipe[p].elapse, Options.SpeedTestMode, pipe[p].err)
       IN  SetPipe(p, [pipe[p] EXCEPT
               !.err = err,
               !.pc = IF AfterGotPing(pipe[p].elapse, Options.SpeedTestMode) = "sentinel"
                      THEN "pingsentinel" ELSE AfterPingLink(err)])
    /\ UNCHANGED <<batch, wg, guard, done, crashed, main, ch, cons>>

\* p.WriteMessage(getMsgByte(index, "gotspeed", -1, -1, 0)); return err
PingSentinel(p) ==
    /\ pipe[p].pc = "pingsentinel"
    /\ Write(Pipe(p), Sentinel(pipe[p].index))
    /\ SetPipe(p, [pipe[p] EXCEPT !.pc = AfterPingLink(pipe[p].err)])
    /\ UNCHANGED <<batch, wg, guard, done, crashed, main, ch, cons>>

\* p.WriteMessage(getMsgByte(index, "startspeed")); ch := make(chan int64, 1);
\* defer close(ch); go func(ch) {...}(ch); download.Download(...) begins
StartSpeed(p) ==
    /\ pipe[p].pc = "startspeed"
    /\ Write(Pipe(p), getMsgByte(pipe[p].index, "startspeed"))
    /\ SetPipe(p, [pipe[p] EXCEPT !.pc = "download"])
    /\ ch' = [ch EXCEPT ![p] = [made |-> TRUE, buf |-> <<>>, closed |-> FALSE]]
    /\ cons' = [cons EXCEPT ![p] = [NoConsumer EXCEPT !.pc = "select"]]
    /\ UNCHANGED <<batch, wg, guard, done, crashed, main>>

\* download.Download pushes a sample into ch, whose buffer holds one
DownloadSend(p) ==
    /\ ~crashed
    /\ pipe[p].pc = "download"
    /\ pipe[p].sent < MaxSamples
    /\ Len(ch[p].buf) < 1
    /\ \E sample \in Samples : ch' = [ch EXCEPT ![p].buf = Append(@, sample)]
    /\ SetPipe(p, [pipe[p] EXCEPT !.sent = @ + 1])
    /\ UNCHANGED <<batch, mu, writers, out, wg, guard, done, crashed, main, cons>>

\* speed, err := download.Download(...) returns; if speed < 1 the sentinel follows
DownloadReturn(p) ==
    /\ ~crashed
    /\ pipe[p].pc = "download"
    /\ \E speed \in DownloadSpeeds :
        SetPipe(p, [pipe[p] EXCEPT !.pc = IF speed < 1 THEN "speedsentinel" ELSE "return"])
    /\ UNCHANGED <<batch, mu, writers, out, wg, guard, done, crashed, main, ch, cons>>

\* p.WriteMessage(getMsgByte(index, "gotspeed", -1, -1, 0)); return err
SpeedSentinel(p) ==
    /\ pipe[p].pc = "speedsentinel"
    /\ Write(Pipe(p), Sentinel(pipe[p].index))
    /\ SetPipe(p, [pipe[p] EXCEPT !.pc = "return"])
    /\ UNCHANGED <<batch, wg, guard, done, crashed, main, ch, cons>>

\* the deferred p.wg.Done() left out
WgAfterTestOne_NoDone(n, wgDone) == n

\* testOne returns: the deferred close(ch), then the deferred p.wg.Done()
\* that only the branch link == "" registered
WgAfterTestOne(n, wgDone) == IF wgDone THEN n - 1 ELSE n

Return(p) ==
    /\ ~crashed
    /\ pipe[p].pc = "return"
    /\ ch' = [ch EXCEPT ![p].closed = ch[p].made]
    /\ wg' = WgAfterTestOne(wg, pipe[p].wgDone)
    /\ SetPipe(p, [pipe[p] EXCEPT !.pc = "endone"])
    /\ UNCHANGED <<batch, mu, writers, out, guard, done, crashed, main, cons>>

\* _ = p.WriteMessage(getMsgByte(id, "endone"))
EndOne(p) ==
    /\ pipe[p].pc = "endone"
    /\ Write(Pipe(p), getMsgByte(pipe[p].index, "endone"))
    /\ SetPipe(p, [pipe[p] EXCEPT !.pc = "release"])
    /\ UNCHANGED <<batch, wg, guard, done, crashed, main, ch, cons>>

\* <-c
Release(p) ==
    /\ ~crashed
    /\ pipe[p].pc = "release"
    /\ guard # <<>>
    /\ guard' = Tail(guard)
    /\ SetPipe(p, [pipe[p] EXCEPT !.pc = "finished"])
    /\ UNCHANGED <<batch, mu, writers, out, wg, done, crashed, main, ch, cons>>

\* ------------------------------------------------------ the sample consumer
RECURSIVE SumQuotients(_, _)
\* for _, s := range speeds { avg += s / int64(len(speeds)) }
SumQuotients(speeds, n) ==
    IF speeds = <<>> THEN 0 ELSE (Head(speeds) \div n) + SumQuotients(Tail(speeds), n)

Average(speeds) == SumQuotients(speeds, Len(speeds))

\* the maximum overwritten by every sample
Maximum_Latest(max, speed) == speed

\* if max < speed { max = speed }
Maximum(max, speed) == IF max < speed THEN speed ELSE max

\* case speed, ok := <-ch, a value in the buffer: a negative one ends the
\* goroutine, any other joins speeds and updates avg and max
Receive(p) ==
    /\ ~crashed
    /\ cons[p].pc = "select"
    /\ ch[p].buf # <<>>
    /\ LET speed == Head(ch[p].buf)
       IN  cons' = [cons EXCEPT ![p] =
               IF speed < 0 THEN [@ EXCEPT !.pc = "exit"]
               ELSE [pc |-> "gotspeed",
                     speeds |-> Append(@.speeds, speed),
                     max |-> Maximum(@.max, speed),
                     avg |-> Average(Append(@.speeds, speed)),
                     speed |-> speed]]
    /\ ch' = [ch EXCEPT ![p].buf = Tail(@)]
    /\ UNCHANGED <<batch, mu, writers, out, wg, guard, done, crashed, main, pipe>>

\* case speed, ok := <-ch with ch closed and drained: !ok, return
ReceiveClosed(p) ==
    /\ ~crashed
    /\ cons[p].pc = "select"
    /\ ch[p].buf = <<>>
    /\ ch[p].closed
    /\ cons' = [cons EXCEPT ![p].pc = "exit"]
    /\ UNCHANGED <<batch, mu, writers, out, wg, guard, done, crashed, main, pipe, ch>>

\* case <-ctx.Done(): return
ConsumerDone(p) ==
    /\ ~crashed
    /\ cons[p].pc = "select"
    /\ done
    /\ cons' = [cons EXCEPT ![p].pc = "exit"]
    /\ UNCHANGED <<batch, mu, writers, out, wg, guard, done, crashed, main, pipe, ch>>

\* err = p.WriteMessage(getMsgByte(index, "gotspeed", avg, max, speed))
GotSpeed(p) ==
    /\ cons[p].pc = "gotspeed"
    /\ Write(Cons(p), getMsgByte3(pipe[p].index, "gotspeed", cons[p].avg, cons[p].max, cons[p].speed))
    /\ cons' = [cons EXCEPT ![p].pc = "select"]
    /\ UNCHANGED <<batch, wg, guard, done, crashed, main, pipe, ch>>

\* ----------------------------------------------------------- specification
MainStep ==
    \/ TestAllStart
    \/ GotServer
    \/ LoopAdd
    \/ SelectSend
    \/ SelectDone
    \/ Wait
    \/ WriteEOF

PipeStep(p) ==
    \/ TestOne(p)
    \/ StartPing(p)
    \/ GotPing(p)
    \/ PingSentinel(p)
    \/ StartSpeed(p)
    \/ DownloadSend(p)
    \/ DownloadReturn(p)
    \/ SpeedSentinel(p)
    \/ Return(p)
    \/ EndOne(p)
    \/ Release(p)

ConsStep(p) ==
    \/ Receive(p)
    \/ ReceiveClosed(p)
    \/ ConsumerDone(p)
    \/ GotSpeed(p)

Next ==
    \/ \E g \in Goroutines : Lock(g)
    \/ MainStep
    \/ \E p \in Positions : PipeStep(p)
    \/ \E p \in Positions : ConsStep(p)
    \/ Cancel

Spec == Init /\ [][Next]_vars

\* ----------------------------------------------- the parsing specification
ParseInit ==
    /\ message \in ParseMessages
    /\ parsed = <<>>
    /\ NewProfileTest(<<>>, NoOptions)

\* links, options, err := parseMessage(message), and on success
\* p := ProfileTest{Options: options, Links: links}
ParseMessage ==
    /\ parsed = <<>>
    /\ parsed' = <<parseMessage(message)>>
    /\ IF parseMessage(message).err = ErrNil
       THEN /\ Links' = parseMessage(message).links
            /\ Options' = parseMessage(message).options
       ELSE UNCHANGED <<Links, Options>>
    /\ UNCHANGED <<message, mu, writers, out, wg, guard, done, crashed, main, pipe, ch, cons>>

ParseNext == ParseMessage

ParseSpec == ParseInit /\ [][ParseNext]_vars

\* ------------------------------------------------------------------ fairness
\* The Go scheduler runs every runnable goroutine, sync.Mutex hands the lock
\* to a waiting goroutine, and the primitives return: each goroutine that can
\* take a step eventually takes one.  The owner of ctx need never cancel.
AllPositions == 0..(MaxLinks - 1)
AllGoroutines == {Main} \cup {Pipe(p) : p \in AllPositions} \cup {Cons(p) : p \in AllPositions}

Fairness ==
    /\ WF_vars(MainStep)
    /\ \A p \in AllPositions : WF_vars(p \in Positions /\ PipeStep(p))
    /\ \A p \in AllPositions : WF_vars(p \in Positions /\ ConsStep(p))
    /\ \A g \in AllGoroutines : WF_vars(Lock(g))

\* The batches of the fair specification: those of Init whose pipelines run
\* one at a time (concurrency 1, or a single link).
FairBatchMessages ==
    {m \in BatchMessages :
        parseMessage(m).options.Concurrency = 1 \/ Len(parseMessage(m).links) = 1}

FairInit ==
    \E m \in FairBatchMessages :
        /\ parseMessage(m).err = ErrNil
        /\ message = m
        /\ parsed = <<parseMessage(m)>>
        /\ NewProfileTest(parseMessage(m).links, parseMessage(m).options)

FairSpec == FairInit /\ [][Next]_vars /\ Fairness

\* ---------------------------------------------- the sampling specification
\* One link in speed-only mode, whose download pushes up to MaxFeed samples
\* out of FeedSamples: the whole batch runs, with a longer sample history.
FeedSamples == (0 - 1)..MaxSampleValue

\* download.Download pushes a sample into ch, whose buffer holds one
Feed(p) ==
    /\ ~crashed
    /\ pipe[p].pc = "download"
    /\ pipe[p].sent < MaxFeed
    /\ Len(ch[p].buf) < 1
    /\ \E sample \in FeedSamples : ch' = [ch EXCEPT ![p].buf = Append(@, sample)]
    /\ SetPipe(p, [pipe[p] EXCEPT !.sent = @ + 1])
    /\ UNCHANGED <<batch, mu, writers, out, wg, guard, done, crashed, main, cons>>

SampleInit ==
    /\ message = LegacyBatch(1, SpeedOnly, 1)
    /\ parsed = <<parseMessage(message)>>
    /\ NewProfileTest(parseMessage(message).links, parseMessage(message).options)

SamplePipeStep(p) ==
    \/ TestOne(p)
    \/ StartSpeed(p)
    \/ Feed(p)
    \/ DownloadReturn(p)
    \/ SpeedSentinel(p)
    \/ Return(p)
    \/ EndOne(p)
    \/ Release(p)

SampleNext ==
    \/ \E g \in Goroutines : Lock(g)
    \/ TestAllStart
    \/ GotServer
    \/ LoopAdd
    \/ SelectSend
    \/ SelectDone
    \/ Wait
    \/ WriteEOF
    \/ \E p \in Positions : SamplePipeStep(p)
    \/ \E p \in Positions : ConsStep(p)
    \/ Cancel

SampleSpec == SampleInit /\ [][SampleNext]_vars

\* ------------------------------------------------------------------- claims
Frames(info) == {k \in 1..Len(out) : out[k].info = info}
FramesOf(info, id) == {k \in Frames(info) : out[k].id = id}
\* the pipelines testAll has dispatched, and those that hold a token of guard
Dispatched == {p \in Positions : pipe[p].pc # "idle"}
Active == {p \in Positions : pipe[p].pc \notin {"idle", "finished"}}

\* C1: at any time the pipelines that were dispatched and have not released
\* their token are at most Concurrency many, and so are the tokens in guard.
C1_ActiveAtMostConcurrency ==
    /\ Cardinality(Active) <= Options.Concurrency
    /\ Len(guard) <= Options.Concurrency

\* the pool is full while testAll waits at its select with a link left
C1_Witness ==
    /\ main.pc = "select"
    /\ Cardinality(Active) = Options.Concurrency
    /\ \E p \in Active : pipe[p].pc = "download"

\* C2: a non-empty batch in ALL mode whose context is never cancelled
\* eventually has eof written, and eof is never written twice.
C2_EofExactlyOnce ==
    /\ [](Options.TestMode = ALLTEST => Cardinality(Frames("eof")) <= 1)
    /\ (Options.TestMode = ALLTEST /\ Len(Links) >= 1)
          => <>(done \/ Cardinality(Frames("eof")) = 1)

C2_Witness ==
    /\ Options.TestMode = ALLTEST
    /\ Len(Links) = 2
    /\ ~done
    /\ main.pc = "done"
    /\ Cardinality(Frames("eof")) = 1

\* C3: no endone is written after eof.
C3_NoEndoneAfterEof ==
    \A k \in Frames("eof") : \A j \in Frames("endone") : j < k

\* C4: every dispatched pipeline eventually has an endone with its id written.
Ended == {p \in Positions : FramesOf("endone", pipe[p].index) # {}}

C4_EndoneEventually ==
    \A p \in AllPositions : [](p \in Dispatched => <>(p \in Ended))

\* C5: no gotping or gotspeed of an index is written after the endone of that index.
C5_NoMeasurementAfterEndone ==
    \A k \in Frames("endone") :
        \A j \in Frames("gotping") \cup Frames("gotspeed") :
            out[j].id = out[k].id => j < k

\* C6: a startping or startspeed of an index follows a gotserver of that index.
C6_GotServerBeforeStart ==
    \A j \in Frames("startping") \cup Frames("startspeed") :
        \E k \in FramesOf("gotserver", out[j].id) : k < j

\* C7: on an empty link list testAll writes the error frame and nothing else,
\* dispatches nothing and returns an error.
C7_EmptyBatch ==
    Len(Links) < 1 =>
        /\ out \in {<<>>, <<SPEEDTEST_ERROR_NONODES>>}
        /\ wg = 0 /\ guard = <<>> /\ Dispatched = {}
        /\ main.pc \in {"testAll", "done"}
        /\ main.pc = "done" => (out = <<SPEEDTEST_ERROR_NONODES>> /\ main.ret = "no profile found")

C7_Witness ==
    /\ Len(Links) < 1
    /\ main.pc = "done"
    /\ out = <<SPEEDTEST_ERROR_NONODES>>

\* the frames that carry an id, in order
FramesWith(id) == SelectSeq(out, LAMBDA f : f.id = id /\ f.info # "gotserver")

\* C8: in ping-only mode no startspeed is written, and a pipeline that has
\* written its endone wrote startping, gotping, the sentinel and endone.
C8_PingOnlySequence ==
    Options.SpeedTestMode = PingOnly =>
        /\ Frames("startspeed") = {}
        /\ \A p \in Positions :
            pipe[p].pc \in {"release", "finished"} =>
                \E elapse \in ElapseValues :
                    FramesWith(pipe[p].index) =
                        <<getMsgByte(pipe[p].index, "startping"),
                          getMsgByte1(pipe[p].index, "gotping", elapse),
                          Sentinel(pipe[p].index),
                          getMsgByte(pipe[p].index, "endone")>>

\* parseMessage has returned without an error
ParsedOK == parsed # <<>> /\ parsed[1].err = ErrNil

\* C9: after parseMessage succeeds the timeout is at least 20 seconds.
C9_TimeoutAtLeast20s ==
    ParsedOK => ~DurationLess(parsed[1].options.Timeout, Seconds(20))

\* C10: after parseMessage succeeds the concurrency is at least 1, and so is
\* the capacity of the guard of the batch built from it.
C10_ConcurrencyAtLeast1 ==
    ParsedOK => (parsed[1].options.Concurrency >= 1 /\ GuardCap >= 1)

\* a retest envelope that asked for a concurrency below 1
C10_Witness ==
    /\ ParsedOK
    /\ message.json # <<>>
    /\ message.json[1].concurrency < 1
    /\ parsed[1].options.Concurrency = 1
    /\ GuardCap = 1

\* the gotspeed frames of the consumer loop, in order: the sentinel
\* gotspeed(index, -1, -1, 0) is not one of them
Measured == SelectSeq(out, LAMBDA f : f.info = "gotspeed" /\ f # Sentinel(f.id))
avgOf(f) == f.option[1]
maxOf(f) == f.option[2]
speedOf(f) == f.option[3]
RECURSIVE SumSpeeds(_, _)
SumSpeeds(frames, k) == IF k = 0 THEN 0 ELSE speedOf(frames[k]) + SumSpeeds(frames, k - 1)

\* C11: over the non-sentinel gotspeed frames of a link, the maximum never
\* decreases and is the largest sample so far, and 0 <= average <= maximum.
C11_MaximumAndAverage ==
    \A k \in 1..Len(Measured) :
        /\ \A j \in 1..k : speedOf(Measured[j]) <= maxOf(Measured[k])
        /\ \E j \in 1..k : speedOf(Measured[j]) = maxOf(Measured[k])
        /\ k > 1 => maxOf(Measured[k - 1]) <= maxOf(Measured[k])
        /\ 0 <= avgOf(Measured[k])
        /\ avgOf(Measured[k]) <= maxOf(Measured[k])

\* three samples: the maximum grew once, and the last sample is below it
C11_Witness ==
    /\ Len(Measured) = 3
    /\ maxOf(Measured[1]) < maxOf(Measured[2])
    /\ speedOf(Measured[3]) < maxOf(Measured[3])
    /\ avgOf(Measured[3]) > 0

\* the legacy message "vmess://abc^Group1^^^^3^30"
ExampleMessage ==
    [text |-> <<"vmess://abc", Caret, "Group1", Caret, Caret, Caret, Caret, "3", Caret, "3", "0">>,
     json |-> NoJSON]

\* C12: parseMessage accepts the message "vmess://abc^Group1^^^^3^30" and
\* yields one link, concurrency 3, a timeout of 30 seconds and test mode ALL.
C12_ExampleParses ==
    (message = ExampleMessage /\ parsed # <<>>) =>
        /\ parsed[1].err = ErrNil
        /\ Len(parsed[1].links) = 1
        /\ parsed[1].options.Concurrency = 3
        /\ parsed[1].options.Timeout = Seconds(30)
        /\ parsed[1].options.TestMode = ALLTEST

\* the events of a pipeline
PipelineEvents == {"startping", "gotping", "startspeed", "gotspeed", "endone"}

\* C13: in a RETEST batch with as many testids as links, testAll dispatches
\* one pipeline per link, and the pipeline of position i carries the id
\* testids[i] in its events and tests the link links[i].
C13_ExplicitIdsAndLinks ==
    (Options.TestMode = RETEST /\ Explicit /\ Len(Options.TestIDs) = Len(Options.Links)) =>
        /\ \A p \in Dispatched :
            /\ pipe[p].index = At(Options.TestIDs, p)
            /\ pipe[p].pc # "testOne" => pipe[p].link = At(Options.Links, p)
        /\ main.pc \in {"wait", "eof"} => Dispatched = Positions
        /\ \A k \in 1..Len(out) :
            out[k].info \in PipelineEvents =>
                \E p \in Dispatched : out[k].id = At(Options.TestIDs, p)

\* testAll is in its dispatch loop or waits on the completion barrier
Dispatching == main.pc \in {"loop", "select", "wait"}

\* C14: once the context is cancelled while testAll dispatches or waits on
\* the completion barrier, eof is never written.
C14_CancelSuppressesEof ==
    []((done /\ Dispatching) => [](Frames("eof") = {}))

\* the pipelines whose testOne has returned
Returned == {p \in Positions : pipe[p].pc \in {"endone", "release", "finished"}}

\* C15: in a RETEST batch every pipeline whose testOne has returned has taken
\* its count off the completion barrier, and unless the context is cancelled
\* testAll eventually writes eof.
C15_RetestBarrierReachesZero ==
    /\ [](Options.TestMode = RETEST => wg <= Cardinality(Positions \ Returned))
    /\ (Options.TestMode = RETEST /\ Len(Links) >= 1)
          => <>(done \/ Frames("eof") # {})

\* the pipelines whose ping has reported an elapsed time below 1
PingFailed ==
    {p \in Positions :
        /\ Options.SpeedTestMode # SpeedOnly
        /\ pipe[p].pc \notin {"idle", "testOne", "panic", "startping", "gotping"}
        /\ pipe[p].elapse < 1}

\* C16: outside speed-only mode a pipeline whose ping reported elapsed < 1
\* writes the sentinel and returns: it writes no startspeed and never calls
\* the throughput primitive.
C16_FailedPingFinishes ==
    \A p \in PingFailed :
        /\ pipe[p].pc \notin {"startspeed", "download", "speedsentinel"}
        /\ FramesOf("startspeed", pipe[p].index) = {}
        /\ ~ch[p].made
        /\ pipe[p].pc # "pingsentinel" =>
              \E k \in FramesOf("gotspeed", pipe[p].index) : out[k] = Sentinel(pipe[p].index)

\* C17: once the context is cancelled no step of testAll dispatches a pipeline.
C17_NoDispatchAfterCancel ==
    [][done => Dispatched' \subseteq Dispatched]_vars

\* C18: at most one goroutine is inside p.Conn.WriteMessage at any time, and
\* it holds the mutex; a frame is appended only by that goroutine.
C18_WritesSerialized ==
    /\ Cardinality(writers) <= 1
    /\ writers \subseteq Goroutines
    /\ mu <=> writers # {}
    /\ \A g \in writers : AtWrite(g)

\* the consumer of a link writes while the scheduler and a pipeline wait
\* for the mutex
C18_Witness ==
    /\ \E p \in Positions : writers = {Cons(p)}
    /\ AtWrite(Main)
    /\ \E p \in Positions : AtWrite(Pipe(p))

\* C19: the average of the k-th non-sentinel gotspeed frame is the sum of the
\* k samples so far divided by k, truncated once.
C19_AverageIsTruncatedMean ==
    \A k \in 1..Len(Measured) :
        avgOf(Measured[k]) = SumSpeeds(Measured, k) \div k

\* C20: on the batch of an accepted retest envelope testAll never panics on
\* an index: at every position it reaches, testids and the explicit links
\* have an element when both are non-empty.
C20_RetestIndexesInRange ==
    Options.TestMode = RETEST =>
        /\ main.pc # "panic"
        /\ (main.pc = "loop" /\ Explicit) =>
              (InRange(Options.TestIDs, main.i) /\ InRange(Options.Links, main.i))

====
